---- MODULE Spec2Model ----
(***************************************************************************)
(* Model of programs/anchor-dice-game-q4-25/src/instructions/resolve_bet.rs *)
(* (the ResolveBet accounts, verify_ed25519_signature and resolve_bet).     *)
(*                                                                         *)
(* Lamport quantities are u64 and the two digest halves are u128.  TLC's   *)
(* integers are 32 bits wide, so a fixed-width unsigned integer is kept as *)
(* a little-endian sequence of 16-bit limbs (4 limbs for u64, 8 for u128)  *)
(* and the checked / wrapping operations of the source are carried out on  *)
(* the limbs at the width the source uses.                                 *)
(***************************************************************************)
EXTENDS Integers, Sequences, FiniteSets, TLC

Ok == "Ok"

\* Option<T>: the empty sequence, or the value in a sequence of one.
Some(v) == <<v>>
None == <<>>
is_some(o) == o # <<>>
unwrap(o) == o[1]

(***************************************************************************)
(* Fixed-width unsigned integers                                           *)
(***************************************************************************)
LimbBase == 65536
U64Limbs == 4
U128Limbs == 8

\* A small natural (< LimbBase) as a u64.
U64(n) == <<n, 0, 0, 0>>

ZeroLimbs(n) == [i \in 1..n |-> 0]

\* a + b + c limb by limb; the result has one limb more than a (the carry).
RECURSIVE AddLimbs(_, _, _)
AddLimbs(a, b, c) ==
    IF a = <<>> THEN <<c>>
    ELSE LET s == Head(a) + Head(b) + c
         IN <<s % LimbBase>> \o AddLimbs(Tail(a), Tail(b), s \div LimbBase)

\* a - b - c limb by limb; the last limb of the result is the borrow.
RECURSIVE SubLimbs(_, _, _)
SubLimbs(a, b, c) ==
    IF a = <<>> THEN <<c>>
    ELSE LET d == Head(a) - Head(b) - c
         IN IF d < 0 THEN <<d + LimbBase>> \o SubLimbs(Tail(a), Tail(b), 1)
            ELSE <<d>> \o SubLimbs(Tail(a), Tail(b), 0)

\* a * k + c for a small multiplier k; one limb more than a (the overflow).
RECURSIVE MulLimbs(_, _, _)
MulLimbs(a, k, c) ==
    IF a = <<>> THEN <<c>>
    ELSE LET p == Head(a) * k + c
         IN <<p % LimbBase>> \o MulLimbs(Tail(a), k, p \div LimbBase)

\* The remainder of the limbs i..Len(a) of a (as a number) divided by k.
RECURSIVE RemFrom(_, _, _)
RemFrom(a, k, i) ==
    IF i > Len(a) THEN 0 ELSE (RemFrom(a, k, i + 1) * LimbBase + a[i]) % k

\* a \div k, long division from the most significant limb.
DivLimbs(a, k) ==
    [i \in 1..Len(a) |-> (RemFrom(a, k, i + 1) * LimbBase + a[i]) \div k]

\* a <= b for limb sequences of the same length.
LeqLimbs(a, b) == SubLimbs(b, a, 0)[Len(a) + 1] = 0

checked_add(a, b) ==
    LET r == AddLimbs(a, b, 0)
    IN IF r[U64Limbs + 1] = 0 THEN Some(SubSeq(r, 1, U64Limbs)) ELSE None

checked_sub(a, b) ==
    LET r == SubLimbs(a, b, 0)
    IN IF r[U64Limbs + 1] = 0 THEN Some(SubSeq(r, 1, U64Limbs)) ELSE None

\* u64::wrapping_mul in place of checked_mul.
wrapping_mul(a, k) == Some(SubSeq(MulLimbs(a, k, 0), 1, U64Limbs))

checked_mul(a, k) ==
    LET r == MulLimbs(a, k, 0)
    IN IF r[U64Limbs + 1] = 0 THEN Some(SubSeq(r, 1, U64Limbs)) ELSE None

checked_div(a, k) == IF k = 0 THEN None ELSE Some(DivLimbs(a, k))

\* u128::from_le_bytes: 16 bytes, least significant first.
from_le_bytes(buffer) ==
    [i \in 1..U128Limbs |-> buffer[2 * i - 1] + 256 * buffer[2 * i]]

\* u128::saturating_add in place of wrapping_add.
saturating_add(a, b) ==
    LET r == AddLimbs(a, b, 0)
    IN IF r[U128Limbs + 1] = 0 THEN SubSeq(r, 1, U128Limbs)
       ELSE [i \in 1..U128Limbs |-> LimbBase - 1]

wrapping_add(a, b) == SubSeq(AddLimbs(a, b, 0), 1, U128Limbs)

wrapping_rem(a, k) == RemFrom(a, k, 1)

\* `as u8`
as_u8(n) == n % 256

(***************************************************************************)
(* The world the instruction runs in                                       *)
(***************************************************************************)
Players == {"alice", "bob"}

\* Bet seeds; with one house (one vault) a Bet's address is its seed.
Seeds == {7, 8}

\* The 64-byte signatures that occur, by name.
Sigs == {"sigA", "sigB"}

\* Program ids an instruction of the transaction can carry.
ed25519_program_ID == "Ed25519SigVerify"
DiceProgramID == "DiceGame"
ProgramIds == {ed25519_program_ID, DiceProgramID}

HOUSE_FEE == 150

\* 16 bytes holding a small number, and 16 bytes 0xFF.
Bytes16(n) == [i \in 1..16 |-> IF i = 1 THEN n ELSE 0]
Ones16 == [i \in 1..16 |-> 255]

\* hash(sig): the 32-byte digest of each signature that occurs.  sigA's halves
\* add up past 2^128 (the sum wraps to 49), sigB's do not (the sum is 50).
hash(sig) ==
    IF sig = "sigA" THEN Ones16 \o Bytes16(50) ELSE Bytes16(30) \o Bytes16(20)

\* The signature whose roll (50) wins against every threshold bet on.
WinningSig == "sigA"

\* Bet::to_slice: the fixed-layout serialization of the Bet's fields.
to_slice(bet) == <<bet.player, bet.seed, bet.roll, bet.amount, bet.bump>>

\* The bump of the Bet's address, a function of the address seeds.
BetBump(seed) == 255 - (seed % 2)

Bet(player, seed, roll, amount) ==
    [player |-> player, seed |-> seed, roll |-> roll, amount |-> amount,
     bump |-> BetBump(seed)]

(***************************************************************************)
(* The instruction at position 0 and its parsed payload                    *)
(***************************************************************************)
\* One Ed25519InstructionSignature of the payload.
Entries(pks, sigs, msgs) ==
    [is_verifiable : BOOLEAN, public_key : pks, signature : sigs, message : msgs]

BadPayload == [parses |-> FALSE, entries |-> <<>>]
Payload(entries) == [parses |-> TRUE, entries |-> entries]

\* Ed25519InstructionSignatures::unpack(&ix.data)
unpack(data) == IF data.parses THEN Some(data.entries) ELSE None

Instruction(program_id, accounts, data) ==
    [program_id |-> program_id, accounts |-> accounts, data |-> data]

(***************************************************************************)
(* ResolveBet::verify_ed25519_signature, check by check                    *)
(***************************************************************************)
\* The bet account without `has_one = player`.
has_one_unchecked(bet, player) == TRUE

\* #[account(has_one = player)] on bet
has_one_player(bet, player) == bet.player = player

\* The program id of the instruction at position 0 left unchecked.
check_program_skipped(ix) == Ok

check_program(ix) ==
    IF ix.program_id = ed25519_program_ID THEN Ok ELSE "Ed25519Program"

check_accounts(ix) == IF ix.accounts = 0 THEN Ok ELSE "Ed25519Accounts"

check_unpack(ix) == IF is_some(unpack(ix.data)) THEN Ok ELSE "Ed25519DataLength"

check_count(signatures) == IF Len(signatures) = 1 THEN Ok ELSE "Ed25519Signature"

check_header(signature) == IF signature.is_verifiable THEN Ok ELSE "Ed25519Header"

check_pubkey(signature, player) ==
    IF ~is_some(signature.public_key) THEN "Ed25519Pubkey"
    ELSE IF unwrap(signature.public_key) = player THEN Ok ELSE "Ed25519Pubkey"

check_signature(signature, sig) ==
    IF ~is_some(signature.signature) THEN "Ed25519Signature"
    ELSE IF unwrap(signature.signature) = sig THEN Ok ELSE "Ed25519Signature"

\* The signed message left uncompared.
check_message_skipped(signature, bet) ==
    IF ~is_some(signature.message) THEN "Ed25519Message" ELSE Ok

check_message(signature, bet) ==
    IF ~is_some(signature.message) THEN "Ed25519Message"
    ELSE IF unwrap(signature.message) = to_slice(bet) THEN Ok ELSE "Ed25519Message"

\* The checks with the message compared before the signer and the signature.
verify_message_first(self, ix, sig) ==
    IF check_program(ix) # Ok THEN check_program(ix)
    ELSE IF check_accounts(ix) # Ok THEN check_accounts(ix)
    ELSE IF check_unpack(ix) # Ok THEN check_unpack(ix)
    ELSE LET signatures == unwrap(unpack(ix.data))
         IN IF check_count(signatures) # Ok THEN check_count(signatures)
            ELSE LET signature == signatures[1]
                 IN IF check_header(signature) # Ok THEN check_header(signature)
                    ELSE IF check_message(signature, self.bet) # Ok
                         THEN check_message(signature, self.bet)
                    ELSE IF check_pubkey(signature, self.player) # Ok
                         THEN check_pubkey(signature, self.player)
                    ELSE check_signature(signature, sig)

\* self = [player |-> key of the player account, bet |-> the Bet account];
\* ix = load_instruction_at_checked(0, instructions).
verify_ed25519_signature(self, ix, sig) ==
    IF check_program(ix) # Ok THEN check_program(ix)
    ELSE IF check_accounts(ix) # Ok THEN check_accounts(ix)
    ELSE IF check_unpack(ix) # Ok THEN check_unpack(ix)
    ELSE LET signatures == unwrap(unpack(ix.data))
         IN IF check_count(signatures) # Ok THEN check_count(signatures)
            ELSE LET signature == signatures[1]
                 IN IF check_header(signature) # Ok THEN check_header(signature)
                    ELSE IF check_pubkey(signature, self.player) # Ok
                         THEN check_pubkey(signature, self.player)
                    ELSE IF check_signature(signature, sig) # Ok
                         THEN check_signature(signature, sig)
                    ELSE check_message(signature, self.bet)

(***************************************************************************)
(* ResolveBet::resolve_bet                                                 *)
(***************************************************************************)
\* Lines 88-98: the roll derived from a 32-byte digest.
derive_roll(digest) ==
    LET lower == from_le_bytes(SubSeq(digest, 1, 16))
        upper == from_le_bytes(SubSeq(digest, 17, 32))
    IN as_u8(wrapping_rem(wrapping_add(lower, upper), 100) + 1)

\* The comparison of line 100 made strict.
wins_strictly(bet, roll) == bet.roll > roll

wins(bet, roll) == bet.roll >= roll

\* The fee added to the stake instead of taken from it.
payout_fee_added(amount) ==
    LET product == checked_mul(amount, 10000 + HOUSE_FEE)
    IN IF is_some(product) THEN checked_div(unwrap(product), 10000) ELSE None

\* Lines 101-107: Some(payout), or None when the multiplication overflows.
payout(amount) ==
    LET product == checked_mul(amount, 10000 - HOUSE_FEE)
    IN IF is_some(product) THEN checked_div(unwrap(product), 10000) ELSE None

\* system_program::transfer(from vault, to player, lamports): the new pair of
\* balances, or None when the vault holds less than `lamports`.
transfer(from, to, lamports) ==
    LET rest == checked_sub(from, lamports)
        more == checked_add(to, lamports)
    IN IF is_some(rest) /\ is_some(more)
       THEN Some([from |-> unwrap(rest), to |-> unwrap(more)])
       ELSE None

\* What resolve_bet does with the player's and the vault's lamports:
\* [result, roll, paid, vault, player].
resolve_bet(bet, sig, vaultLamports, playerLamports) ==
    LET roll == derive_roll(hash(sig))
        unpaid == [roll |-> roll, paid |-> U64(0), vault |-> vaultLamports,
                   player |-> playerLamports]
    IN IF wins(bet, roll)
       THEN IF ~is_some(payout(bet.amount))
            THEN [result |-> "Overflow"] @@ unpaid
            ELSE LET moved == transfer(vaultLamports, playerLamports,
                                       unwrap(payout(bet.amount)))
                 IN IF is_some(moved)
                    THEN [result |-> Ok, roll |-> roll,
                          paid |-> unwrap(payout(bet.amount)),
                          vault |-> unwrap(moved).from, player |-> unwrap(moved).to]
                    ELSE [result |-> "InsufficientFunds"] @@ unpaid
       ELSE [result |-> Ok] @@ unpaid

(***************************************************************************)
(* State                                                                   *)
(***************************************************************************)
VARIABLES
    bets,       \* [Seeds -> Option<Bet>]: the Bet account at each address
    vault,      \* lamports of the vault (u64)
    balance,    \* [Players -> u64]: lamports of each player's account
    nplaced,    \* number of bets placed so far; the next Bet's number
    ids,        \* [Seeds -> number of the Bet now or last at the address]
    closed,     \* [Seeds -> Option<Bet>]: the Bet last closed at each address
    payouts,    \* [Bet numbers -> times the Bet was resolved successfully]
    last,       \* the resolve_bet transaction just processed, with its outcome
    call        \* a call of one function on its own: [fn, arg, res]

vars == <<bets, vault, balance, nplaced, ids, closed, payouts, last, call>>

\* Number of bets placed in a run.
MaxPlacements == 2

\* Lamports a Bet account holds for its storage (returned when it closes).
BetRent == U64(2000)

\* 2^51 lamports: more than u64::MAX / 9850.
Huge == <<0, 0, 0, 8>>

InitialBalance == <<0, 0, 0, 16>>

Amounts == {U64(10000), Huge}
Thresholds == {50}

NoTx == [op |-> "none"]
NoCall == [fn |-> "none", arg |-> <<>>, res |-> None]

Init ==
    /\ bets = [s \in Seeds |-> None]
    /\ vault = U64(0)
    /\ balance = [p \in Players |-> InitialBalance]
    /\ nplaced = 0
    /\ ids = [s \in Seeds |-> 0]
    /\ closed = [s \in Seeds |-> None]
    /\ payouts = [i \in 1..MaxPlacements |-> 0]
    /\ last = NoTx
    /\ call = NoCall

(***************************************************************************)
(* Bet placement (another instruction of the program): the player pays the *)
(* stake into the vault and the storage deposit into the new Bet account.  *)
(***************************************************************************)
place_bet(player, seed, roll, amount) ==
    LET cost == checked_add(amount, BetRent)
        rest == IF is_some(cost) THEN checked_sub(balance[player], unwrap(cost))
                ELSE None
        held == checked_add(vault, amount)
    IN /\ last = NoTx
       /\ nplaced < MaxPlacements
       /\ ~is_some(bets[seed])
       /\ is_some(rest) /\ is_some(held)
       /\ bets' = [bets EXCEPT ![seed] = Some(Bet(player, seed, roll, amount))]
       /\ vault' = unwrap(held)
       /\ balance' = [balance EXCEPT ![player] = unwrap(rest)]
       /\ nplaced' = nplaced + 1
       /\ ids' = [ids EXCEPT ![seed] = nplaced + 1]
       /\ UNCHANGED <<closed, payouts, last, call>>

PlaceBet ==
    \E player \in Players, seed \in Seeds, roll \in Thresholds, amount \in Amounts :
        place_bet(player, seed, roll, amount)

(***************************************************************************)
(* The resolve_bet instruction: account validation, verification,          *)
(* settlement, and the closing of the Bet account.                         *)
(***************************************************************************)
\* The bet account without `close = player`.
close_bet_omitted(accounts, seed, playerLamports) ==
    [bets |-> accounts, player |-> playerLamports]

\* #[account(mut, close = player)] on bet: at the end of a successful
\* instruction the Bet account is gone and its lamports are the player's.
close_bet(accounts, seed, playerLamports) ==
    [bets |-> [accounts EXCEPT ![seed] = None],
     player |-> unwrap(checked_add(playerLamports, BetRent))]

\* The outcome of the instruction on transaction tx = [target, player, ix, sig]
\* in the current state: [result, roll, paid, bets, vault, balance].
Outcome(tx) ==
    LET rejected(kind) ==
            [result |-> kind, roll |-> 0, paid |-> U64(0), bets |-> bets,
             vault |-> vault, balance |-> balance]
    IN IF ~is_some(bets[tx.target]) THEN rejected("AccountNotInitialized")
       ELSE LET bet == unwrap(bets[tx.target])
                self == [player |-> tx.player, bet |-> bet]
            IN IF ~has_one_player(bet, tx.player) THEN rejected("ConstraintHasOne")
               ELSE IF verify_ed25519_signature(self, tx.ix, tx.sig) # Ok
                    THEN rejected(verify_ed25519_signature(self, tx.ix, tx.sig))
               ELSE LET r == resolve_bet(bet, tx.sig, vault, balance[tx.player])
                    IN IF r.result # Ok THEN rejected(r.result)
                       ELSE LET c == close_bet(bets, tx.target, r.player)
                            IN [result |-> Ok, roll |-> r.roll, paid |-> r.paid,
                                bets |-> c.bets, vault |-> r.vault,
                                balance |-> [balance EXCEPT ![tx.player] = c.player]]

\* The Bets a submitter can hold a signed message of: those that are live and
\* those that were closed.
KnownBets ==
    {unwrap(bets[s]) : s \in {t \in Seeds : is_some(bets[t])}}
    \cup {unwrap(closed[s]) : s \in {t \in Seeds : is_some(closed[t])}}

\* The entry the Ed25519 program records for signature sig by the Bet's player
\* over the Bet's canonical bytes.
Proof(bet, sig) ==
    [is_verifiable |-> TRUE, public_key |-> Some(bet.player),
     signature |-> Some(sig), message |-> Some(to_slice(bet))]

\* The transaction a client assembles to resolve `bet` with signature sig.
Assembled(bet, sig) ==
    [target |-> bet.seed, player |-> bet.player, sig |-> sig,
     ix |-> Instruction(ed25519_program_ID, 0, Payload(<<Proof(bet, sig)>>))]

\* The same transaction with one part of the companion instruction, or the
\* signature argument, changed.
Malformed(bet, sig) ==
    LET tx == Assembled(bet, sig)
        e == Proof(bet, sig)
        with(ix) == [tx EXCEPT !.ix = ix]
        entry(x) == with(Instruction(ed25519_program_ID, 0, Payload(<<x>>)))
    IN {with(Instruction(DiceProgramID, 6, BadPayload)),
        with(Instruction(DiceProgramID, 0, Payload(<<e>>))),
        with(Instruction(ed25519_program_ID, 1, Payload(<<e>>))),
        with(Instruction(ed25519_program_ID, 0, BadPayload)),
        with(Instruction(ed25519_program_ID, 0, Payload(<<>>))),
        with(Instruction(ed25519_program_ID, 0, Payload(<<e, e>>))),
        entry([e EXCEPT !.is_verifiable = FALSE]),
        entry([e EXCEPT !.public_key = None]),
        entry([e EXCEPT !.signature = None]),
        entry([e EXCEPT !.message = None]),
        [tx EXCEPT !.sig = CHOOSE g \in Sigs : g # sig]}

\* The transaction with the Bet's canonical bytes signed by any player.
SignedBy(signer, bet, sig) ==
    [Assembled(bet, sig) EXCEPT !.ix.data.entries[1].public_key = Some(signer)]

\* The resolving transactions submitted: a transaction assembled for a known
\* Bet, signed by its player or by another, presented as it is or against any
\* Bet address and player account, or with its companion instruction or its
\* signature argument changed.
Transactions ==
    {[SignedBy(q, b, g) EXCEPT !.target = t, !.player = p] :
        q \in Players, b \in KnownBets, g \in Sigs, t \in Seeds, p \in Players}
    \cup UNION {Malformed(b, WinningSig) : b \in KnownBets}

resolve_bet_instruction(tx) ==
    LET o == Outcome(tx)
    IN /\ last = NoTx
       /\ bets' = o.bets
       /\ vault' = o.vault
       /\ balance' = o.balance
       /\ closed' = [s \in Seeds |->
                        IF is_some(bets[s]) /\ ~is_some(o.bets[s])
                        THEN bets[s] ELSE closed[s]]
       /\ payouts' = IF o.result = Ok
                     THEN [payouts EXCEPT ![ids[tx.target]] = @ + 1]
                     ELSE payouts
       /\ last' = [op |-> "resolve", tx |-> tx, result |-> o.result,
                   roll |-> o.roll, paid |-> o.paid,
                   pre |-> [bets |-> bets, vault |-> vault, balance |-> balance]]
       /\ UNCHANGED <<nplaced, ids, call>>

ResolveBet ==
    \E tx \in Transactions : resolve_bet_instruction(tx)

\* `last` holds one transaction: its record is dropped before the next
\* instruction is processed (place_bet and resolve_bet wait for last = NoTx).
\* Nothing of the program's state changes.
Forget ==
    /\ last # NoTx
    /\ last' = NoTx
    /\ UNCHANGED <<bets, vault, balance, nplaced, ids, closed, payouts, call>>

Next == PlaceBet \/ ResolveBet \/ Forget

Spec == Init /\ [][Next]_vars

(***************************************************************************)
(* The functions on their own: each is applied once to an argument drawn   *)
(* from a set of inputs.                                                   *)
(***************************************************************************)
\* Accounts that passed the constraints of ResolveBet.
ValidatedAccounts(betSet) ==
    {self \in [player : Players, bet : betSet] :
        has_one_player(self.bet, self.player)}

SampleBets == {Bet(p, s, 50, U64(10000)) : p \in Players, s \in Seeds}

SampleEntries ==
    Entries({None} \cup {Some(p) : p \in Players},
            {None} \cup {Some(g) : g \in Sigs},
            {None} \cup {Some(to_slice(b)) : b \in SampleBets})

SamplePayloads ==
    {BadPayload, Payload(<<>>)}
    \cup {Payload(<<e>>) : e \in SampleEntries}
    \cup {Payload(<<e, e>>) : e \in SampleEntries}

SampleInstructions ==
    {Instruction(id, n, d) : id \in ProgramIds, n \in {0, 1}, d \in SamplePayloads}

VerifyArgs ==
    [self : ValidatedAccounts(SampleBets), ix : SampleInstructions, sig : Sigs]

\* Halves of a digest: 16 bytes each.
SampleHalves ==
    {Bytes16(0), Bytes16(1), Bytes16(99), Bytes16(100), Bytes16(255), Ones16,
     [i \in 1..16 |-> IF i = 16 THEN 128 ELSE 0],
     [i \in 1..16 |-> IF i = 16 THEN 255 ELSE 0],
     [i \in 1..16 |-> (i * 37) % 256],
     [i \in 1..16 |-> 255 - ((i * 37) % 256)]}

DigestArgs == {lo \o hi : lo \in SampleHalves, hi \in SampleHalves}

\* u64::MAX, and the largest amount whose product with 9850 fits in a u64.
U64Max == <<65535, 65535, 65535, 65535>>
LargestPayable == <<37964, 18935, 42821, 6>>

AmountArgs ==
    {U64(0), U64(1), U64(3), U64(1000), U64(10000), U64(65535), <<0, 1, 0, 0>>,
     LargestPayable, <<37965, 18935, 42821, 6>>, Huge, U64Max}

\* Thresholds around the rolls of the two signatures (50 and 51).
ThresholdArgs == {1, 49, 50, 51, 60, 100}

ResolveArgs ==
    {[bet |-> Bet(p, 7, r, a), sig |-> g, player |-> U64(5000),
      vault |-> IF stakeOnly THEN a ELSE InitialBalance] :
        p \in {"alice"}, r \in ThresholdArgs, a \in AmountArgs, g \in Sigs,
        stakeOnly \in BOOLEAN}

Calls ==
    {[fn |-> "verify", arg |-> a, res |-> None] : a \in VerifyArgs}
    \cup {[fn |-> "resolve", arg |-> a, res |-> None] : a \in ResolveArgs}
    \cup {[fn |-> "roll", arg |-> d, res |-> None] : d \in DigestArgs}
    \cup {[fn |-> "payout", arg |-> a, res |-> None] : a \in AmountArgs}

FnInit ==
    /\ bets = [s \in Seeds |-> None]
    /\ vault = U64(0)
    /\ balance = [p \in Players |-> InitialBalance]
    /\ nplaced = 0
    /\ ids = [s \in Seeds |-> 0]
    /\ closed = [s \in Seeds |-> None]
    /\ payouts = [i \in 1..MaxPlacements |-> 0]
    /\ last = NoTx
    /\ call \in Calls

Returns(fn, value) ==
    /\ call.fn = fn
    /\ call.res = None
    /\ call' = [call EXCEPT !.res = Some(value)]
    /\ UNCHANGED <<bets, vault, balance, nplaced, ids, closed, payouts, last>>

CallVerify ==
    Returns("verify",
            verify_ed25519_signature(call.arg.self, call.arg.ix, call.arg.sig))

CallRoll == Returns("roll", derive_roll(call.arg))

CallPayout == Returns("payout", payout(call.arg))

CallResolve ==
    Returns("resolve", resolve_bet(call.arg.bet, call.arg.sig, call.arg.vault,
                                   call.arg.player))

FnNext == CallVerify \/ CallRoll \/ CallPayout \/ CallResolve

FnSpec == FnInit /\ [][FnNext]_vars

(***************************************************************************)
(* Reference computations the properties are stated with                   *)
(***************************************************************************)
\* 256^i mod 100
RECURSIVE PowMod(_)
PowMod(i) == IF i = 0 THEN 1 ELSE (PowMod(i - 1) * 256) % 100

\* The little-endian number in bytes 1..i of b, mod 100.
RECURSIVE ValueMod(_, _)
ValueMod(b, i) ==
    IF i = 0 THEN 0 ELSE (b[i] * PowMod(i - 1) + ValueMod(b, i - 1)) % 100

\* Whether x + y, as little-endian numbers of i bytes, reaches 256^i.
RECURSIVE CarriesOut(_, _, _)
CarriesOut(x, y, i) ==
    IF i = 0 THEN FALSE
    ELSE IF x[i] + y[i] > 255 THEN TRUE
    ELSE IF x[i] + y[i] < 255 THEN FALSE
    ELSE CarriesOut(x, y, i - 1)

\* (((lower + upper) mod 2^128) mod 100) + 1 for the two halves of a digest.
ExpectedRoll(digest) ==
    LET lo == SubSeq(digest, 1, 16)
        hi == SubSeq(digest, 17, 32)
        wrap == IF CarriesOut(lo, hi, 16) THEN 100 - PowMod(16) ELSE 0
    IN ((ValueMod(lo, 16) + ValueMod(hi, 16) + wrap) % 100) + 1

Widen(a, n) == a \o ZeroLimbs(n - Len(a))

\* p = floor(amount * (10000 - 150) / 10000):
\* p * 10000 <= amount * 9850 < (p + 1) * 10000.
IsPayoutOf(p, amount) ==
    LET due == Widen(MulLimbs(amount, 10000 - 150, 0), 6)
        back == Widen(MulLimbs(p, 10000, 0), 6)
        over == SubSeq(AddLimbs(back, Widen(<<10000>>, 6), 0), 1, 6)
    IN LeqLimbs(back, due) /\ ~LeqLimbs(over, due)

\* amount * 9850 exceeds u64::MAX.
Overflows(amount) == ~LeqLimbs(amount, LargestPayable)

\* The seven checks of the verification, stated on the transaction: the
\* instruction at position 0, the signature argument and the Bet.
Entry(ix) == ix.data.entries[1]
HasEntry(ix) == ix.data.parses /\ Len(ix.data.entries) >= 1

CheckFails(k, ix, sig, bet) ==
    CASE k = 1 -> ix.program_id # ed25519_program_ID
      [] k = 2 -> ix.accounts # 0
      [] k = 3 -> ~ix.data.parses \/ Len(ix.data.entries) # 1
      [] k = 4 -> ~HasEntry(ix) \/ ~Entry(ix).is_verifiable
      [] k = 5 -> ~HasEntry(ix) \/ Entry(ix).public_key # Some(bet.player)
      [] k = 6 -> ~HasEntry(ix) \/ Entry(ix).signature # Some(sig)
      [] k = 7 -> ~HasEntry(ix) \/ Entry(ix).message # Some(to_slice(bet))

FailingChecks(ix, sig, bet) == {k \in 1..7 : CheckFails(k, ix, sig, bet)}

AllChecksHold(ix, sig, bet) == FailingChecks(ix, sig, bet) = {}

\* 0 when no check fails.
FirstFailing(ix, sig, bet) ==
    IF AllChecksHold(ix, sig, bet) THEN 0
    ELSE CHOOSE k \in FailingChecks(ix, sig, bet) :
            \A j \in FailingChecks(ix, sig, bet) : k <= j

\* The error kind the program gives each check.
KindOfCheck(k, ix) ==
    CASE k = 0 -> Ok
      [] k = 1 -> "Ed25519Program"
      [] k = 2 -> "Ed25519Accounts"
      [] k = 3 -> IF ix.data.parses THEN "Ed25519Signature" ELSE "Ed25519DataLength"
      [] k = 4 -> "Ed25519Header"
      [] k = 5 -> "Ed25519Pubkey"
      [] k = 6 -> "Ed25519Signature"
      [] k = 7 -> "Ed25519Message"

Verified == call.fn = "verify" /\ is_some(call.res)
VerifyResult(a) == verify_ed25519_signature(a.self, a.ix, a.sig)
WithEntry(a, e) == [a EXCEPT !.ix.data.entries = <<e>>]

(***************************************************************************)
(* C1.  verify_ed25519_signature succeeds only if the instruction at       *)
(* position 0 is an Ed25519 instruction with no accounts and exactly one   *)
(* entry, the entry is verifiable, its public key is the Bet's player, its *)
(* signature is the `sig` argument and its message is the Bet's canonical  *)
(* bytes; and from an accepted input, another signer, another signature    *)
(* (in the entry or as the argument) or another message is rejected.       *)
(***************************************************************************)
C1_VerifyOnlyIfAllChecks ==
    (Verified /\ unwrap(call.res) = Ok) =>
        LET a == call.arg
            e == Entry(a.ix)
        IN /\ a.ix.program_id = ed25519_program_ID
           /\ a.ix.accounts = 0
           /\ a.ix.data.parses /\ Len(a.ix.data.entries) = 1
           /\ e.is_verifiable
           /\ e.public_key = Some(a.self.bet.player)
           /\ e.signature = Some(a.sig)
           /\ e.message = Some(to_slice(a.self.bet))
           /\ \A p \in Players \ {a.self.bet.player} :
                VerifyResult(WithEntry(a, [e EXCEPT !.public_key = Some(p)])) # Ok
           /\ \A g \in Sigs \ {a.sig} :
                /\ VerifyResult(WithEntry(a, [e EXCEPT !.signature = Some(g)])) # Ok
                /\ VerifyResult([a EXCEPT !.sig = g]) # Ok
           /\ \A b \in SampleBets :
                to_slice(b) # to_slice(a.self.bet) =>
                    VerifyResult(WithEntry(a, [e EXCEPT !.message = Some(to_slice(b))]))
                        # Ok

C1_Accepted == Verified /\ unwrap(call.res) = Ok

(***************************************************************************)
(* C5.  A successful resolve_bet moves exactly                             *)
(* floor(amount * (10000 - 150) / 10000) from the vault to the player when *)
(* bet.roll >= derived roll (a derived roll equal to the threshold wins),  *)
(* and nothing when bet.roll < derived roll.                               *)
(***************************************************************************)
C5_PayoutOnWinOnly ==
    (call.fn = "resolve" /\ is_some(call.res) /\ unwrap(call.res).result = Ok) =>
        LET a == call.arg
            r == unwrap(call.res)
            roll == ExpectedRoll(hash(a.sig))
        IN /\ r.roll = roll
           /\ IF a.bet.roll >= roll
              THEN /\ IsPayoutOf(r.paid, a.bet.amount)
                   /\ a.bet.amount = U64(10000) => r.paid = U64(9850)
                   /\ a.bet.amount = U64(1000) => r.paid = U64(985)
                   /\ a.bet.amount = U64(3) => r.paid = U64(2)
              ELSE r.paid = U64(0)
           /\ checked_add(r.vault, r.paid) = Some(a.vault)
           /\ checked_add(a.player, r.paid) = Some(r.player)

\* Threshold 50 against derived roll 50: a win that pays 2 of a stake of 3.
C5_BoundaryWin ==
    /\ call.fn = "resolve" /\ is_some(call.res)
    /\ call.arg.bet.roll = 50 /\ call.arg.sig = "sigA"
    /\ call.arg.bet.amount = U64(3)
    /\ unwrap(call.res).result = Ok
    /\ unwrap(call.res).paid = U64(2)

(***************************************************************************)
(* C6.  For every digest the derived roll is                               *)
(* (((lower + upper) mod 2^128) mod 100) + 1, with lower and upper the     *)
(* little-endian values of bytes 0..16 and 16..32; it lies in 1..100 (so   *)
(* the narrowing to u8 loses nothing).                                     *)
(***************************************************************************)
C6_RollInRange ==
    (call.fn = "roll" /\ is_some(call.res)) =>
        /\ unwrap(call.res) = ExpectedRoll(call.arg)
        /\ unwrap(call.res) \in 1..100

\* The all-one digest: both halves 2^128 - 1, the sum wraps to 2^128 - 2.
C6_AllOnesDigest ==
    /\ call.fn = "roll" /\ is_some(call.res)
    /\ call.arg = Ones16 \o Ones16
    /\ unwrap(call.res) = 55

(***************************************************************************)
(* C8.  Each of the seven checks has an error kind of its own, different   *)
(* from the kinds of the other six, so the kind alone tells which check    *)
(* failed: two inputs rejected with the same kind failed the same check    *)
(* (an unparseable payload counting as the entry-count check).             *)
(***************************************************************************)
C8_KindTellsCheck ==
    (Verified /\ unwrap(call.res) # Ok) =>
        \A ix \in SampleInstructions :
            LET a == call.arg
                other == verify_ed25519_signature(a.self, ix, a.sig)
            IN other = unwrap(call.res) =>
                FirstFailing(ix, a.sig, a.self.bet)
                    = FirstFailing(a.ix, a.sig, a.self.bet)

(***************************************************************************)
(* C9.  When several checks fail, verify_ed25519_signature reports the     *)
(* error of the first failing one in the order program, accounts, payload  *)
(* parse / entry count, verifiability flag, signer, signature, message.    *)
(***************************************************************************)
C9_FirstFailingCheckReported ==
    Verified =>
        LET a == call.arg
        IN unwrap(call.res)
            = KindOfCheck(FirstFailing(a.ix, a.sig, a.self.bet), a.ix)

\* Signer, signature and message all differ: the signer is reported.
C9_SeveralFail ==
    /\ Verified
    /\ {5, 6, 7} \subseteq FailingChecks(call.arg.ix, call.arg.sig, call.arg.self.bet)
    /\ unwrap(call.res) = "Ed25519Pubkey"

(***************************************************************************)
(* Properties of the resolve_bet instruction, stated on the transaction    *)
(* just processed (last) and the state it ran in (last.pre).               *)
(***************************************************************************)
Resolved == last.op = "resolve"
TargetLive == is_some(last.pre.bets[last.tx.target])
TargetBet == unwrap(last.pre.bets[last.tx.target])
Untouched ==
    bets = last.pre.bets /\ vault = last.pre.vault /\ balance = last.pre.balance

\* Verification of the transaction's `sig` against the instruction at
\* position 0 passes for the targeted Bet.
VerificationPasses ==
    /\ TargetLive
    /\ last.tx.player = TargetBet.player
    /\ AllChecksHold(last.tx.ix, last.tx.sig, TargetBet)

(***************************************************************************)
(* C2.  The vault pays and the Bet closes only in a resolution whose       *)
(* verification passed for that Bet and `sig`; any other resolution is     *)
(* rejected and leaves vault, player balances and Bet records as they were.*)
(***************************************************************************)
C2_SettlementOnlyAfterVerification ==
    Resolved =>
        /\ last.result = Ok => VerificationPasses
        /\ ~VerificationPasses => (last.result # Ok /\ Untouched)

C2_PaidAfterVerification ==
    /\ Resolved /\ last.result = Ok /\ VerificationPasses
    /\ last.paid # U64(0) /\ vault # last.pre.vault
    /\ ~is_some(bets[last.tx.target])

(***************************************************************************)
(* C3.  A record whose signed message is the canonical bytes of a Bet A,   *)
(* presented in a resolution of a Bet B with other canonical bytes.        *)
(***************************************************************************)
KnownMessagesBefore ==
    {to_slice(unwrap(last.pre.bets[s])) :
        s \in {t \in Seeds : is_some(last.pre.bets[t])}}
    \cup {to_slice(unwrap(closed[s])) : s \in {t \in Seeds : is_some(closed[t])}}

Replay ==
    /\ Resolved /\ TargetLive
    /\ last.tx.player = TargetBet.player
    /\ last.tx.ix.program_id = ed25519_program_ID
    /\ HasEntry(last.tx.ix)
    /\ is_some(Entry(last.tx.ix).message)
    /\ unwrap(Entry(last.tx.ix).message) \in KnownMessagesBefore
    /\ unwrap(Entry(last.tx.ix).message) # to_slice(TargetBet)

\* C3 as claimed: the replay is rejected with the message-mismatch kind, and
\* B is neither paid out nor closed.
C3_ReplayIsMessageMismatch ==
    Replay => (last.result = "Ed25519Message" /\ Untouched)

\* C3 as amended: the replay is rejected and B is neither paid out nor closed;
\* the kind is that of the first failing check, which is the message-mismatch
\* kind when the six earlier checks pass.
C3_ReplayRejected ==
    Replay =>
        /\ last.result # Ok
        /\ Untouched
        /\ last.result
            = KindOfCheck(FirstFailing(last.tx.ix, last.tx.sig, TargetBet), last.tx.ix)
        /\ (\A k \in 1..6 : ~CheckFails(k, last.tx.ix, last.tx.sig, TargetBet))
            => last.result = "Ed25519Message"

\* The proof of a Bet that was already resolved and closed, replayed against
\* another Bet of the same player.
C3_ReplayAfterResolution ==
    /\ Replay
    /\ last.result = "Ed25519Message"
    /\ \E s \in Seeds :
        /\ is_some(closed[s]) /\ ~is_some(bets[s])
        /\ Entry(last.tx.ix).message = Some(to_slice(unwrap(closed[s])))

(***************************************************************************)
(* C4.  A successful resolution, won or lost, ends with the Bet account    *)
(* gone and its storage deposit with the player; a resolution of a Bet     *)
(* that is gone fails, so no Bet is resolved (and paid) more than once.    *)
(***************************************************************************)
C4_ConsumedOnce ==
    /\ \A i \in DOMAIN payouts : payouts[i] <= 1
    /\ \A s \in Seeds : is_some(bets[s]) => payouts[ids[s]] = 0
    /\ (Resolved /\ last.result = Ok) =>
        /\ TargetLive
        /\ ~is_some(bets[last.tx.target])
        /\ LET before == last.pre.balance[TargetBet.player]
               won == checked_add(before, last.paid)
           IN is_some(won)
              /\ checked_add(unwrap(won), BetRent) = Some(balance[TargetBet.player])
    /\ (Resolved /\ ~TargetLive) => (last.result # Ok /\ Untouched)

\* The transaction that resolved a Bet, submitted again after the Bet closed.
C4_SecondAttemptFails ==
    /\ Resolved /\ ~TargetLive
    /\ is_some(closed[last.tx.target])
    /\ payouts[ids[last.tx.target]] = 1
    /\ last.tx = Assembled(unwrap(closed[last.tx.target]), last.tx.sig)
    /\ last.result = "AccountNotInitialized"

(***************************************************************************)
(* C7.  A verified, winning resolution of a Bet whose amount times 9850    *)
(* exceeds u64::MAX fails with Overflow, pays nothing and closes nothing;  *)
(* what a resolution pays is never a wrapped product.                      *)
(***************************************************************************)
C7_OverflowAborts ==
    Resolved =>
        /\ (/\ VerificationPasses
            /\ TargetBet.roll >= ExpectedRoll(hash(last.tx.sig))
            /\ Overflows(TargetBet.amount))
            => (last.result = "Overflow" /\ Untouched)
        /\ (last.result = Ok /\ last.paid # U64(0))
            => (~Overflows(TargetBet.amount)
                /\ IsPayoutOf(last.paid, TargetBet.amount))

C7_OverflowSeen ==
    /\ Resolved /\ VerificationPasses
    /\ Overflows(TargetBet.amount)
    /\ last.result = "Overflow"
    /\ is_some(bets[last.tx.target])

(***************************************************************************)
(* C10.  A winning resolution pays at most the Bet's amount, so the vault  *)
(* always holds at least the amounts of the live Bets and a winning        *)
(* transfer never fails for lack of funds.                                 *)
(***************************************************************************)
RECURSIVE Stakes(_)
Stakes(S) ==
    IF S = {} THEN ZeroLimbs(6)
    ELSE LET s == CHOOSE x \in S : TRUE
             stake == IF is_some(bets[s]) THEN unwrap(bets[s]).amount ELSE U64(0)
         IN SubSeq(AddLimbs(Stakes(S \ {s}), Widen(stake, 6), 0), 1, 6)

C10_VaultCoversLiveBets ==
    /\ LeqLimbs(Stakes(Seeds), Widen(vault, 6))
    /\ (Resolved /\ last.result = Ok) => LeqLimbs(last.paid, TargetBet.amount)
    /\ Resolved => last.result # "InsufficientFunds"

\* A win paid while another Bet is live.
C10_WinWithOtherBetLive ==
    /\ Resolved /\ last.result = Ok /\ last.paid # U64(0)
    /\ \E s \in Seeds : is_some(bets[s])

====
